---- MODULE Spec2Model ----
(***************************************************************************)
(* rustychain: the hash-linked chain of blocks (src/blockchain.rs,         *)
(* src/blockchain/block.rs) and its append validation.                     *)
(*                                                                         *)
(* A block is a record [index, previous_hash, timestamp, data].  The       *)
(* payload `data` is a HashMap<String, Value>: it is modelled as the       *)
(* sequence of its (key, value) entries in the iteration order of that     *)
(* particular map instance.  Two instances holding the same entries may    *)
(* iterate in different orders; equality (PartialEq) ignores the order,    *)
(* serialisation (and therefore the hash) follows it.                      *)
(***************************************************************************)
EXTENDS Integers, Sequences, FiniteSets, TLC

\* ----------------------------------------------------------------- bounds
\* largest block index a caller submits (the chain holds at most MaxIndex+1 blocks)
MaxIndex == 2
\* largest clock value / submitted timestamp (milliseconds since epoch, scaled)
MaxTime == 2

\* ------------------------------------------------------------ input sets
Messages == {"Genesis block"}

\* payload maps a caller may submit, each in the iteration order of the
\* instance that is submitted
PayloadMaps ==
    { << <<"message", "another block">> >>,
      << <<"k", "x">>, <<"message", "m">> >> }

\* previous_hash values that are the hash of no block
BogusHashes == {"c4f3c4f3c4f3"}

\* ------------------------------------------------------- block.rs: Block
\* HashMap equality: same set of entries, whatever the iteration order
data_eq(d1, d2) ==
    {d1[i] : i \in DOMAIN d1} = {d2[i] : i \in DOMAIN d2}

\* impl PartialEq for Block
Block_eq(a, b) ==
    /\ a.index = b.index
    /\ a.previous_hash = b.previous_hash
    /\ a.timestamp = b.timestamp
    /\ data_eq(a.data, b.data)

\* message_as_json: the one-entry map {"message": message}
message_as_json(message) == << <<"message", message>> >>

\* serde_json::to_string(&self.data): the entries in the map's iteration order
RECURSIVE entries_to_string(_)
entries_to_string(d) ==
    IF Len(d) = 0 THEN ""
    ELSE "\"" \o d[1][1] \o "\":\"" \o d[1][2] \o "\""
         \o (IF Len(d) > 1 THEN "," ELSE "")
         \o entries_to_string(Tail(d))

data_to_string(d) == "{" \o entries_to_string(d) \o "}"

\* SHA-256 over the bytes of the text; the digest is modelled collision-free
\* as a tag around its preimage
Sha256(text) == "sha256(" \o text \o ")"

\* calculate_hash: the digest of the JSON object {data, index, previous_hash,
\* timestamp}, timestamp as its decimal string.  The backslashes JSON puts
\* before the quotes inside `data` are a one-to-one renaming and are left out.
calculate_hash(index, timestamp, previous_hash, data) ==
    Sha256("{\"data\":\"" \o data
           \o "\",\"index\":" \o ToString(index)
           \o ",\"previous_hash\":\"" \o previous_hash
           \o "\",\"timestamp\":\"" \o ToString(timestamp) \o "\"}")

\* as_hex: the lowercase hex rendering of the digest bytes (injective)
as_hex(bytes) == "hex:" \o bytes

\* Block::hash
Block_hash(b) ==
    as_hex(calculate_hash(b.index, b.timestamp, b.previous_hash,
                          data_to_string(b.data)))

\* Block::clone: HashMap::clone keeps the table layout, hence the order
Block_clone(b) == b

\* ---------------------------------------------------- blockchain.rs: Chain
Ok(block) == [tag |-> "Ok", block |-> block]
Err(variant, args) == [tag |-> variant, args |-> args]
NoCall == [tag |-> "None"]

\* the tuple variants of InvalidBlockErr built by Chain::append
GenesisBlockNotFound == Err("GenesisBlockNotFound", <<>>)

\* variant of NotCorrelated with the two components exchanged
NotCorrelated_swapped(block, last) ==
    Err("NotCorrelated", <<last.index, block.index>>)

NotCorrelated(block, last) == Err("NotCorrelated", <<block.index, last.index>>)

\* variant of NotPosterior with the two components exchanged
NotPosterior_swapped(block, last) ==
    Err("NotPosterior", <<last.timestamp, block.timestamp>>)

NotPosterior(block, last) ==
    Err("NotPosterior", <<block.timestamp, last.timestamp>>)

\* variant of HashNotMatching with the two components exchanged
HashNotMatching_swapped(block, last) ==
    Err("HashNotMatching", <<Block_hash(last), block.previous_hash>>)

HashNotMatching(block, last) ==
    Err("HashNotMatching", <<block.previous_hash, Block_hash(last)>>)

\* the binding names the encoder gives to the two components of a variant
Given(e) == e.args[1]
Expected(e) == e.args[2]

\* variant of the index test that lets any larger index through
index_rejected_gaps(block, last) == block.index <= last.index

\* variant of the index test that expects the tail's own index
index_rejected_same(block, last) == block.index # last.index

\* variant of the index test that turns away only indexes beyond the next
index_rejected_beyond(block, last) == block.index > last.index + 1

\* the three rejection tests of Chain::append
index_rejected(block, last) == block.index # last.index + 1

\* variant of the timestamp test that turns no block away
timestamp_rejected_never(block, last) == FALSE

\* variant of the timestamp test that also rejects an equal timestamp
timestamp_rejected_equal(block, last) == block.timestamp <= last.timestamp

timestamp_rejected(block, last) == block.timestamp < last.timestamp

\* variant of the hash test with the comparison inverted
hash_rejected_inverted(block, last) == block.previous_hash = Block_hash(last)

hash_rejected(block, last) == block.previous_hash # Block_hash(last)

\* variant of Chain::new that builds the chain without genesis block
Chain_new_without_genesis(initial_message, now) == <<>>

\* Chain::new: one genesis block stamped with the current time
Chain_new(initial_message, now) ==
    << [index |-> 0,
        data |-> message_as_json(initial_message),
        previous_hash |-> "",
        timestamp |-> now] >>

\* variant of Chain::append that pushes the block before the hash test
Chain_append_push_early(bs, block) ==
    IF Len(bs) = 0 THEN [blocks |-> bs, ret |-> GenesisBlockNotFound]
    ELSE LET last == bs[Len(bs)] IN
         IF index_rejected(block, last)
         THEN [blocks |-> bs, ret |-> NotCorrelated(block, last)]
         ELSE IF timestamp_rejected(block, last)
         THEN [blocks |-> bs, ret |-> NotPosterior(block, last)]
         ELSE IF hash_rejected(block, last)
         THEN [blocks |-> Append(bs, Block_clone(block)),
               ret |-> HashNotMatching(block, last)]
         ELSE [blocks |-> Append(bs, Block_clone(block)), ret |-> Ok(block)]

\* variant of Chain::append that tests the timestamp before the index
Chain_append_timestamp_first(bs, block) ==
    IF Len(bs) = 0 THEN [blocks |-> bs, ret |-> GenesisBlockNotFound]
    ELSE LET last == bs[Len(bs)] IN
         IF timestamp_rejected(block, last)
         THEN [blocks |-> bs, ret |-> NotPosterior(block, last)]
         ELSE IF index_rejected(block, last)
         THEN [blocks |-> bs, ret |-> NotCorrelated(block, last)]
         ELSE IF hash_rejected(block, last)
         THEN [blocks |-> bs, ret |-> HashNotMatching(block, last)]
         ELSE [blocks |-> Append(bs, Block_clone(block)), ret |-> Ok(block)]

\* variant of Chain::append that stores the block in the place of the tail
Chain_append_replace_tail(bs, block) ==
    IF Len(bs) = 0 THEN [blocks |-> bs, ret |-> GenesisBlockNotFound]
    ELSE LET last == bs[Len(bs)] IN
         IF index_rejected(block, last)
         THEN [blocks |-> bs, ret |-> NotCorrelated(block, last)]
         ELSE IF timestamp_rejected(block, last)
         THEN [blocks |-> bs, ret |-> NotPosterior(block, last)]
         ELSE IF hash_rejected(block, last)
         THEN [blocks |-> bs, ret |-> HashNotMatching(block, last)]
         ELSE [blocks |-> Append(SubSeq(bs, 1, Len(bs) - 1), Block_clone(block)),
               ret |-> Ok(block)]

\* variant of Chain::append that takes the first block of an empty chain
Chain_append_adopt_first(bs, block) ==
    IF Len(bs) = 0
    THEN [blocks |-> Append(bs, Block_clone(block)), ret |-> Ok(block)]
    ELSE LET last == bs[Len(bs)] IN
         IF index_rejected(block, last)
         THEN [blocks |-> bs, ret |-> NotCorrelated(block, last)]
         ELSE IF timestamp_rejected(block, last)
         THEN [blocks |-> bs, ret |-> NotPosterior(block, last)]
         ELSE IF hash_rejected(block, last)
         THEN [blocks |-> bs, ret |-> HashNotMatching(block, last)]
         ELSE [blocks |-> Append(bs, Block_clone(block)), ret |-> Ok(block)]

\* Chain::append on the sequence bs: the sequence afterwards and the Result
Chain_append(bs, block) ==
    IF Len(bs) = 0 THEN [blocks |-> bs, ret |-> GenesisBlockNotFound]
    ELSE LET last == bs[Len(bs)] IN
         IF index_rejected(block, last)
         THEN [blocks |-> bs, ret |-> NotCorrelated(block, last)]
         ELSE IF timestamp_rejected(block, last)
         THEN [blocks |-> bs, ret |-> NotPosterior(block, last)]
         ELSE IF hash_rejected(block, last)
         THEN [blocks |-> bs, ret |-> HashNotMatching(block, last)]
         ELSE [blocks |-> Append(bs, Block_clone(block)), ret |-> Ok(block)]

\* variant of get_last_block that reads the first block
get_last_block_first(bs) == bs[1]

\* Chain::get_last_block
get_last_block(bs) == bs[Len(bs)]

\* ------------------------------------------------- api/errors.rs: codec
\* A text (a reason, a label) is the sequence of the pieces it was formatted
\* from: the fixed fragments of the template and the rendered values.  The
\* fragments start and end with a blank, so a run of digits or of hex digits
\* never reaches into a fragment and a capture group covers a whole piece.
\* A piece rendered by as_hex stands for the 2 * DigestBytes hex digits of a
\* digest; every other piece is inspected character by character.

\* bytes of a SHA-256 digest
DigestBytes == 32
\* the repetition count of [a-f0-9]{32} in HASH_NOT_MATCHING_DESC_REGEX
HashRegexCount == 32

\* u64::MAX and u128::MAX, with the widths scaled down to IndexBits and
\* TimestampBits bits
IndexBits == 4
TimestampBits == 5
U64_MAX == 2^IndexBits - 1
U128_MAX == 2^TimestampBits - 1

HASH_NOT_MATCHING_LABEL == "Previous hash not matching"
INDEX_NOT_CORRELATIVE_LABEL == "New block index is not correlative"
TIMESTAMP_NOT_LATER_LABEL == "New block timestamp must be later to previous"
UNKNOWN_ERROR_LABEL == "Unknown error"

DigitChars == "0123456789"
HexChars == "0123456789abcdef"

\* c is one of the characters of the string chars
char_in(c, chars) == \E i \in 1..Len(chars) : SubSeq(chars, i, i) = c

\* every character of s is one of chars
all_chars_in(s, chars) ==
    \A i \in 1..Len(s) : char_in(SubSeq(s, i, i), chars)

\* the piece is the hex rendering of a digest
is_digest_text(s) == Len(s) >= 4 /\ SubSeq(s, 1, 4) = "hex:"

\* \d+ : one or more decimal digits
matches_digits(s) ==
    ~is_digest_text(s) /\ Len(s) >= 1 /\ all_chars_in(s, DigitChars)

\* [a-f0-9]{32} : exactly HashRegexCount lowercase hex digits
matches_hex_run(s) ==
    IF is_digest_text(s) THEN 2 * DigestBytes = HashRegexCount
    ELSE Len(s) = HashRegexCount /\ all_chars_in(s, HexChars)

\* the regular expressions: fixed fragments and capture groups in order
Lit(text) == [kind |-> "lit", text |-> text]
Group(class) == [kind |-> "group", text |-> class]

HASH_NOT_MATCHING_DESC_REGEX ==
    << Lit("previous hash is "), Group("hex"), Lit(" but "), Group("hex"),
       Lit(" was provided") >>
NOT_CORRELATIVE_DESC_REGEX ==
    << Lit("expected index "), Group("digits"), Lit(" but received "),
       Group("digits"), Lit(" which is not inmediate next") >>
NOT_POSTERIOR_DESC_REGEX ==
    << Lit("Given timestamp "), Group("digits"), Lit(" is not later to "),
       Group("digits") >>

\* one element of a regular expression against one piece
element_matches(el, piece) ==
    IF el.kind = "lit" THEN piece = el.text
    ELSE IF el.text = "hex" THEN matches_hex_run(piece)
    ELSE matches_digits(piece)

\* the regular expression matches the pieces of text from position p on
matches_at(regex, text, p) ==
    /\ p + Len(regex) - 1 <= Len(text)
    /\ \A i \in 1..Len(regex) : element_matches(regex[i], text[p + i - 1])

\* Regex::captures: the groups of the leftmost match, or None (the regular
\* expressions are not anchored)
NoMatch == [found |-> FALSE, groups |-> <<>>]
captures(regex, text) ==
    LET starts == {p \in 1..Len(text) : matches_at(regex, text, p)} IN
    IF starts = {} THEN NoMatch
    ELSE LET p == CHOOSE q \in starts : \A r \in starts : q <= r
             at == {i \in 1..Len(regex) : regex[i].kind = "group"}
             nth(k) == CHOOSE i \in at : Cardinality({j \in at : j < i}) = k - 1
         IN [found |-> TRUE,
             groups |-> [k \in 1..Cardinality(at) |-> text[p + nth(k) - 1]]]

\* the value of a decimal digit
digit_value(c) == CHOOSE v \in 0..9 : SubSeq(DigitChars, v + 1, v + 1) = c

\* str::parse for an unsigned integer of maximum max: the value, or max + 1
\* when the numeral does not fit (parse returns Err)
RECURSIVE parse_from(_, _, _)
parse_from(s, acc, max) ==
    IF Len(s) = 0 THEN acc
    ELSE LET v == acc * 10 + digit_value(SubSeq(s, 1, 1)) IN
         IF v > max THEN max + 1
         ELSE parse_from(SubSeq(s, 2, Len(s)), v, max)

parse_unsigned(s, max) == parse_from(s, 0, max)

\* Display of an unsigned integer: its decimal numeral
to_decimal(n) == ToString(n)

\* a thread that panicked (unwrap on None or on Err)
Panic == Err("Panic", <<>>)
\* InvalidBlockErr::Unkown
Unkown == Err("Unkown", <<>>)

\* params_for_hash_not_matching: (group 2, group 1)
params_for_hash_not_matching(reason) ==
    LET caps == captures(HASH_NOT_MATCHING_DESC_REGEX, reason) IN
    IF ~caps.found THEN Panic
    ELSE [tag |-> "params", args |-> <<caps.groups[2], caps.groups[1]>>]

\* variant of params_for_not_correlative that keeps the order of the groups
params_for_not_correlative_in_order(reason) ==
    LET caps == captures(NOT_CORRELATIVE_DESC_REGEX, reason) IN
    IF ~caps.found THEN Panic
    ELSE LET a == parse_unsigned(caps.groups[1], U64_MAX)
             b == parse_unsigned(caps.groups[2], U64_MAX)
         IN IF a > U64_MAX \/ b > U64_MAX THEN Panic
            ELSE [tag |-> "params", args |-> <<a, b>>]

\* params_for_not_correlative: (group 2, group 1) parsed as u64
params_for_not_correlative(reason) ==
    LET caps == captures(NOT_CORRELATIVE_DESC_REGEX, reason) IN
    IF ~caps.found THEN Panic
    ELSE LET a == parse_unsigned(caps.groups[2], U64_MAX)
             b == parse_unsigned(caps.groups[1], U64_MAX)
         IN IF a > U64_MAX \/ b > U64_MAX THEN Panic
            ELSE [tag |-> "params", args |-> <<a, b>>]

\* variant of params_for_not_posterior that exchanges the groups
params_for_not_posterior_swapped(reason) ==
    LET caps == captures(NOT_POSTERIOR_DESC_REGEX, reason) IN
    IF ~caps.found THEN Panic
    ELSE LET a == parse_unsigned(caps.groups[2], U128_MAX)
             b == parse_unsigned(caps.groups[1], U128_MAX)
         IN IF a > U128_MAX \/ b > U128_MAX THEN Panic
            ELSE [tag |-> "params", args |-> <<a, b>>]

\* params_for_not_posterior: (group 1, group 2) parsed as u128
params_for_not_posterior(reason) ==
    LET caps == captures(NOT_POSTERIOR_DESC_REGEX, reason) IN
    IF ~caps.found THEN Panic
    ELSE LET a == parse_unsigned(caps.groups[1], U128_MAX)
             b == parse_unsigned(caps.groups[2], U128_MAX)
         IN IF a > U128_MAX \/ b > U128_MAX THEN Panic
            ELSE [tag |-> "params", args |-> <<a, b>>]

APIErrorAndReason(error, reason) == [error |-> error, reason |-> reason]

\* the string a text is on the wire: its pieces one after the other
RECURSIVE flat(_)
flat(text) == IF Len(text) = 0 THEN "" ELSE text[1] \o flat(Tail(text))

\* impl From<InvalidBlockErr> for APIErrorAndReason
encode(native_error) ==
    IF native_error.tag = "HashNotMatching"
    THEN APIErrorAndReason(HASH_NOT_MATCHING_LABEL,
            << "previous hash is ", Expected(native_error), " but ",
               Given(native_error), " was provided" >>)
    ELSE IF native_error.tag = "NotCorrelated"
    THEN APIErrorAndReason(INDEX_NOT_CORRELATIVE_LABEL,
            << "expected index ", to_decimal(Expected(native_error)),
               " but received ", to_decimal(Given(native_error)),
               " which is not inmediate next" >>)
    ELSE IF native_error.tag = "NotPosterior"
    THEN APIErrorAndReason(TIMESTAMP_NOT_LATER_LABEL,
            << "Given timestamp ", to_decimal(Given(native_error)),
               " is not later to ", to_decimal(Expected(native_error)) >>)
    ELSE APIErrorAndReason(UNKNOWN_ERROR_LABEL, << "reason" >>)

\* variant of the decoder whose default arm is GenesisBlockNotFound
decode_default_genesis(api_error) ==
    LET rebuild(variant, params) ==
            IF params.tag = "Panic" THEN Panic ELSE Err(variant, params.args)
    IN
    IF api_error.error = HASH_NOT_MATCHING_LABEL
    THEN rebuild("HashNotMatching",
                 params_for_hash_not_matching(api_error.reason))
    ELSE IF api_error.error = INDEX_NOT_CORRELATIVE_LABEL
    THEN rebuild("NotCorrelated", params_for_not_correlative(api_error.reason))
    ELSE IF api_error.error = TIMESTAMP_NOT_LATER_LABEL
    THEN rebuild("NotPosterior", params_for_not_posterior(api_error.reason))
    ELSE GenesisBlockNotFound

\* impl From<APIErrorAndReason> for InvalidBlockErr
decode(api_error) ==
    LET rebuild(variant, params) ==
            IF params.tag = "Panic" THEN Panic ELSE Err(variant, params.args)
    IN
    IF api_error.error = HASH_NOT_MATCHING_LABEL
    THEN rebuild("HashNotMatching",
                 params_for_hash_not_matching(api_error.reason))
    ELSE IF api_error.error = INDEX_NOT_CORRELATIVE_LABEL
    THEN rebuild("NotCorrelated", params_for_not_correlative(api_error.reason))
    ELSE IF api_error.error = TIMESTAMP_NOT_LATER_LABEL
    THEN rebuild("NotPosterior", params_for_not_posterior(api_error.reason))
    ELSE Unkown

\* ------------------------------------------------------ peers.rs: Peers
SchemeFirst == "abcdefghijklmnopqrstuvwxyzABCDEFGHIJKLMNOPQRSTUVWXYZ"
SchemeRest ==
    "abcdefghijklmnopqrstuvwxyzABCDEFGHIJKLMNOPQRSTUVWXYZ0123456789+-."

\* the schemes whose URLs must name a host (file, the sixth special scheme,
\* may have none); schemes are compared in lower case as the callers write
\* them
SpecialSchemes == {"http", "https", "ws", "wss", "ftp"}

\* the host of a URL with a special scheme: the slashes after the colon are
\* skipped and what follows must not be empty nor start a port, a path, a
\* query or a fragment
host_present(rest) ==
    \E j \in 1..Len(rest) :
        /\ all_chars_in(SubSeq(rest, 1, j - 1), "/\\")
        /\ ~char_in(SubSeq(rest, j, j), "/\\:?#@")

\* Url::parse(..).is_ok() without a base URL: the string starts with a
\* scheme (a letter, then letters, digits, +, - or . up to the first colon)
\* and, when the scheme is a special one, names a host.  The inputs drawn
\* hold no blank, control character or port that is not a number, so the
\* tests Url::parse makes on those are left out.
url_parse_ok(s) ==
    \E i \in 2..Len(s) :
        /\ SubSeq(s, i, i) = ":"
        /\ char_in(SubSeq(s, 1, 1), SchemeFirst)
        /\ all_chars_in(SubSeq(s, 1, i - 1), SchemeRest)
        /\ (SubSeq(s, 1, i - 1) \in SpecialSchemes =>
                host_present(SubSeq(s, i + 1, Len(s))))

MemberEntry(peer) == [peer |-> peer]

\* Vec::contains with MemberEntry's PartialEq (same peer string)
members_contains(ms, entry) == \E i \in DOMAIN ms : ms[i].peer = entry.peer

\* EntryRejectedErr::Unknown
Unknown == Err("Unknown", <<>>)

\* variant of Peers::append that stores the entry before it tests the URL
Peers_append_unchecked(ms, entry) ==
    IF members_contains(ms, entry)
    THEN [members |-> ms, ret |-> Err("AlreadyPresent", <<entry>>)]
    ELSE IF ~url_parse_ok(entry.peer)
    THEN [members |-> Append(ms, entry),
          ret |-> Err("InvalidURL", <<entry.peer>>)]
    ELSE [members |-> Append(ms, entry), ret |-> [tag |-> "Ok", block |-> entry]]

\* variant of Peers::append that puts a new entry in front of the list
Peers_append_in_front(ms, entry) ==
    IF ~url_parse_ok(entry.peer)
    THEN [members |-> ms, ret |-> Err("InvalidURL", <<entry.peer>>)]
    ELSE IF members_contains(ms, entry)
    THEN [members |-> ms, ret |-> Err("AlreadyPresent", <<entry>>)]
    ELSE [members |-> <<entry>> \o ms, ret |-> [tag |-> "Ok", block |-> entry]]

\* Peers::append on the member list ms: the list afterwards and the Result
Peers_append(ms, entry) ==
    IF ~url_parse_ok(entry.peer)
    THEN [members |-> ms, ret |-> Err("InvalidURL", <<entry.peer>>)]
    ELSE IF members_contains(ms, entry)
    THEN [members |-> ms, ret |-> Err("AlreadyPresent", <<entry>>)]
    ELSE [members |-> Append(ms, entry), ret |-> [tag |-> "Ok", block |-> entry]]

\* ------------------------------------- api/errors.rs: registry rejections
ENTRY_ALREADY_PRESENT_LABEL == "Entry is already on list"
ENTRY_URL_INVALID_LABEL == "Invalid entry URL"

\* the fixed fragment of "Entry is already a member: (.*)$" and of
\* "Entry URL is invalid: (.*)$"; the group and the anchor are in
\* captures_rest
ENTRY_ALREADY_PRESENT_DESC_REGEX == "Entry is already a member: "
ENTRY_INVALID_URL_DESC_REGEX == "Entry URL is invalid: "

\* (.*)$ : the rest of the text from position p on, which must hold no line
\* feed for the dot to run up to the end of the text
rest_matches(s, p) ==
    \A k \in p..Len(s) : SubSeq(s, k, k) # "\n"

\* Regex::captures for a fragment followed by (.*)$ : the leftmost place of
\* the string s where the fragment stands and the rest matches
captures_rest(fragment, s) ==
    LET n == Len(fragment)
        starts == {p \in 1..(Len(s) - n + 1) :
                     /\ SubSeq(s, p, p + n - 1) = fragment
                     /\ rest_matches(s, p + n)}
    IN IF starts = {} THEN NoMatch
       ELSE LET p == CHOOSE q \in starts : \A r \in starts : q <= r
            IN [found |-> TRUE, groups |-> <<SubSeq(s, p + n, Len(s))>>]

\* param_for_entry_invalid_url
param_for_entry_invalid_url(reason) ==
    LET caps == captures_rest(ENTRY_INVALID_URL_DESC_REGEX, flat(reason)) IN
    IF ~caps.found THEN Panic
    ELSE [tag |-> "params", args |-> <<caps.groups[1]>>]

\* param_for_entry_already_present: it matches the reason against
\* ENTRY_INVALID_URL_DESC_REGEX
param_for_entry_already_present(reason) ==
    LET caps == captures_rest(ENTRY_INVALID_URL_DESC_REGEX, flat(reason)) IN
    IF ~caps.found THEN Panic
    ELSE [tag |-> "params", args |-> <<MemberEntry(caps.groups[1])>>]

\* impl From<EntryRejectedErr> for APIErrorAndReason
encode_entry(native_error) ==
    IF native_error.tag = "AlreadyPresent"
    THEN APIErrorAndReason(ENTRY_ALREADY_PRESENT_LABEL,
            << "Entry is already a member: ", native_error.args[1].peer >>)
    ELSE IF native_error.tag = "InvalidURL"
    THEN APIErrorAndReason(ENTRY_URL_INVALID_LABEL,
            << "Entry URL is invalid: ", native_error.args[1] >>)
    ELSE APIErrorAndReason(UNKNOWN_ERROR_LABEL, << "reason" >>)

\* impl From<APIErrorAndReason> for EntryRejectedErr
decode_entry(api_error) ==
    LET rebuild(variant, params) ==
            IF params.tag = "Panic" THEN Panic ELSE Err(variant, params.args)
    IN
    IF api_error.error = ENTRY_URL_INVALID_LABEL
    THEN rebuild("InvalidURL", param_for_entry_invalid_url(api_error.reason))
    ELSE IF api_error.error = ENTRY_ALREADY_PRESENT_LABEL
    THEN rebuild("AlreadyPresent",
                 param_for_entry_already_present(api_error.reason))
    ELSE Unknown

\* ------------------------------------------------ api/structs.rs: State
\* a std::sync::Mutex: the handler that holds it and the poison flag
NoHolder == "none"
FreeLock == [holder |-> NoHolder, poisoned |-> FALSE]

\* variant of the mutex that lets a second handler in
lock_free_always(lock) == TRUE

\* Mutex::lock returns when no other thread holds the guard
lock_free(lock) == lock.holder = NoHolder

\* variant of the drop that leaves the mutex with its holder
unlocked_kept(lock) == lock

\* the guard is dropped at the end of the operation
unlocked(lock) == [lock EXCEPT !.holder = NoHolder]

\* the guard is dropped while the thread unwinds from a panic
unlocked_by_panic(lock) == [holder |-> NoHolder, poisoned |-> TRUE]

\* ------------------------------------------------------------------ state
VARIABLES
    blocks,     \* Chain.blocks
    before,     \* Chain.blocks when the latest append call started
    candidate,  \* the block handed to the latest append call
    result,     \* what the latest append call returned
    wire,       \* the HTTP response in flight from the server to the client
    decoded,    \* what APIClient::send_block returned to the remote caller
    locks,      \* State.chain's and State.peers' mutexes
    members,    \* Peers.members
    handlers    \* the request handler tasks of the server

vars == <<blocks, before, candidate, result, wire, decoded,
          locks, members, handlers>>

\* the variables of the sequential chain and codec
cvars == <<before, candidate, result, wire, decoded>>

\* the variables of the concurrent server
svars == <<locks, members, handlers>>

\* the handler tasks that run at the same time
Handlers == {"h1", "h2"}

NoRequest == [op |-> "none", block |-> NoCall, from_index |-> 0, entry |-> ""]

\* a handler task: where it is, the request it works on, what the operation
\* returned, and for a peer addition the member list before and after the
\* operation, the response sent and what APIClient::send_peer makes of it
IdleHandler ==
    [pc |-> "idle", req |-> NoRequest, ret |-> NoCall, start_len |-> 0,
     seen |-> <<>>, left |-> <<>>, res |-> [status |-> 0, body |-> <<>>],
     got |-> NoCall]

\* State::new: both mutexes free, no member, no request being handled
ServerIdle ==
    /\ locks = [chain |-> FreeLock, peers |-> FreeLock]
    /\ members = <<>>
    /\ handlers = [h \in Handlers |-> IdleHandler]

\* no response yet
NoWire == [status |-> 0, body |-> <<>>]

\* the same entries in every iteration order another map instance may have
RECURSIVE Orders(_)
Orders(d) ==
    IF Len(d) <= 1 THEN {d}
    ELSE UNION { { <<d[i]>> \o r :
                   r \in Orders([j \in 1..(Len(d) - 1) |->
                                   IF j < i THEN d[j] ELSE d[j + 1]]) } :
                 i \in 1..Len(d) }

\* the hashes a caller can compute from the last two blocks of the chain, on
\* its own copy of each block
KnownHashes(bs) ==
    UNION { { Block_hash([bs[i] EXCEPT !.data = o]) :
                o \in Orders(bs[i].data) } :
            i \in {j \in DOMAIN bs : j >= Len(bs) - 1} }

\* the blocks a caller may submit to a chain holding bs
Candidates(bs) ==
    [index : 0..MaxIndex,
     previous_hash : KnownHashes(bs) \cup BogusHashes,
     timestamp : 0..MaxTime,
     data : PayloadMaps]

Init ==
    /\ \E m \in Messages, now \in 0..MaxTime : blocks = Chain_new(m, now)
    /\ before = blocks
    /\ candidate = NoCall
    /\ result = NoCall
    /\ wire = NoWire
    /\ decoded = NoCall
    /\ ServerIdle

\* Chain { blocks: vec![] }: the public field lets a caller build a chain
\* without genesis block (tests::test_genesis_block_not_found)
InitAny ==
    /\ \/ \E m \in Messages, now \in 0..MaxTime : blocks = Chain_new(m, now)
       \/ blocks = <<>>
    /\ before = blocks
    /\ candidate = NoCall
    /\ result = NoCall
    /\ wire = NoWire
    /\ decoded = NoCall
    /\ ServerIdle

\* one call chain.append(block)
AppendBlock ==
    \E block \in Candidates(blocks) :
        LET r == Chain_append(blocks, block) IN
        /\ blocks' = r.blocks
        /\ before' = blocks
        /\ candidate' = block
        /\ result' = r.ret
        /\ UNCHANGED <<wire, decoded>>
        /\ UNCHANGED svars

Next == AppendBlock

Spec == Init /\ [][Next]_vars

SpecAny == InitAny /\ [][Next]_vars

\* ------------------------------------ api/server.rs, api/client.rs: blocks
\* variant of add_block that answers every outcome with status 200
add_block_response_always_ok(added) ==
    IF added.tag = "Ok" THEN [status |-> 200, body |-> added.block]
    ELSE [status |-> 200, body |-> encode(added)]

\* add_block: the response built from the outcome of State::append_block
add_block_response(added) ==
    IF added.tag = "Ok" THEN [status |-> 200, body |-> added.block]
    ELSE [status |-> 400, body |-> encode(added)]

\* StatusCode::is_success
is_success(status) == status >= 200 /\ status <= 299

\* APIClient::send_block: what the caller gets from the response
send_block_result(response) ==
    IF is_success(response.status) THEN Ok(response.body)
    ELSE decode(response.body)

\* one remote append: the client posts the block, the server appends it and
\* answers, the client turns the answer into its Result
SendBlock ==
    \E block \in Candidates(blocks) :
        LET r == Chain_append(blocks, block)
            response == add_block_response(r.ret)
        IN /\ blocks' = r.blocks
           /\ before' = blocks
           /\ candidate' = block
           /\ result' = r.ret
           /\ wire' = response
           /\ decoded' = send_block_result(response)
           /\ UNCHANGED svars

NextApi == SendBlock

SpecApi == Init /\ [][NextApi]_vars

\* ------------------------------------- api/server.rs, api/client.rs: peers
\* the body of a response: none, or the JSON text of a value of one type
EmptyBody == [kind |-> "empty"]
EntryBody(entry) == [kind |-> "MemberEntry", value |-> entry]
ErrorBody(api_error) == [kind |-> "APIErrorAndReason", value |-> api_error]

\* add_peer: the response built from the outcome of State::add_peer
add_peer_response(added) ==
    IF added.tag = "Ok" THEN [status |-> 201, body |-> EmptyBody]
    ELSE IF added.tag = "AlreadyPresent"
    THEN [status |-> 200, body |-> EmptyBody]
    ELSE IF added.tag = "InvalidURL"
    THEN [status |-> 400,
          body |-> ErrorBody(APIErrorAndReason("Peer rejected",
                                               << added.args[1] >>))]
    ELSE [status |-> 400,
          body |-> ErrorBody(APIErrorAndReason(UNKNOWN_ERROR_LABEL,
                                               << "reason" >>))]

\* APIClient::send_peer: what the caller gets from the response.
\* body_json().unwrap() panics when the body is not the JSON of the type
\* asked for; an empty body is the JSON of no type.
send_peer_result(response) ==
    IF is_success(response.status)
    THEN IF response.body.kind = "MemberEntry"
         THEN Ok(response.body.value) ELSE Panic
    ELSE IF response.body.kind = "APIErrorAndReason"
         THEN LET nat_error == decode_entry(response.body.value) IN
              IF nat_error.tag = "AlreadyPresent"
              THEN Ok(nat_error.args[1]) ELSE nat_error
         ELSE Panic

\* ------------------------------------------------------ the codec alone
\* strings carried by HashNotMatching: the two of the client test, a short
\* caller-supplied one, the rendering of a digest and a 64-digit hash
HashTexts ==
    { "00000000000000000000000000000000",
      "11111111111111111111111111111111",
      "c4f3c4f3c4f3",
      Block_hash(Chain_new("Genesis block", 0)[1]),
      "ffd175853d16c15f4a97051c906bdb60fafd2e67a6ed6e179a66cdc91876156f" }

\* the InvalidBlockErr values handed to the encoder
NativeErrors ==
    {Err("NotCorrelated", <<g, e>>) : g \in 0..U64_MAX, e \in 0..U64_MAX}
    \cup {Err("NotPosterior", <<g, e>>) : g \in 0..U128_MAX, e \in 0..U128_MAX}
    \cup {Err("HashNotMatching", <<g, e>>) : g \in HashTexts, e \in HashTexts}
    \cup {GenesisBlockNotFound, Unkown}

\* labels and reasons a server may put on the wire
WireLabels ==
    { HASH_NOT_MATCHING_LABEL, INDEX_NOT_CORRELATIVE_LABEL,
      TIMESTAMP_NOT_LATER_LABEL, UNKNOWN_ERROR_LABEL, "Peer rejected" }

WireReasons ==
    { << "reason" >>,
      << "index 1 was expected" >>,
      << "previous hash is ", "c4f3c4f3c4f3", " but ", "cafecafecafe",
         " was provided" >>,
      << "expected index ", "1", " but received ", "x2",
         " which is not inmediate next" >>,
      << "expected index ", to_decimal(U64_MAX + 1), " but received ", "1",
         " which is not inmediate next" >>,
      << "expected index ", "0", " but received ", "003",
         " which is not inmediate next" >>,
      << "Given timestamp ", "1", " is not later to ",
         to_decimal(U128_MAX + 1) >>,
      << "Given timestamp ", "1", " is not later to ", "2" >> }

InitCodec ==
    /\ blocks = <<>>
    /\ before = <<>>
    /\ candidate = NoCall
    /\ result \in NativeErrors \cup {NoCall}
    /\ wire = NoWire
    /\ decoded = NoCall
    /\ ServerIdle

\* the server answers a rejected append with the encoded error
EncodeError ==
    /\ result.tag # "None"
    /\ wire.status = 0
    /\ wire' = add_block_response(result)
    /\ UNCHANGED <<blocks, before, candidate, result, decoded, svars>>

\* a server answers 400 with any label and reason
MockReply ==
    /\ result.tag = "None"
    /\ wire.status = 0
    /\ \E label \in WireLabels, reason \in WireReasons :
           wire' = [status |-> 400, body |-> APIErrorAndReason(label, reason)]
    /\ UNCHANGED <<blocks, before, candidate, result, decoded, svars>>

\* the client turns the response into its Result
DecodeError ==
    /\ wire.status # 0
    /\ decoded.tag = "None"
    /\ decoded' = send_block_result(wire)
    /\ UNCHANGED <<blocks, before, candidate, result, wire, svars>>

NextCodec == EncodeError \/ MockReply \/ DecodeError

SpecCodec == InitCodec /\ [][NextCodec]_vars

\* ------------------------------------------- api/server.rs: the handlers
\* Every handler task runs one request at a time: it waits for the mutex of
\* the resource, works on the resource while it holds the guard and drops
\* the guard when the operation ends.  Chain::append is taken in two steps,
\* the tests against the tail and the push, so that the mutex is what keeps
\* them together.

ChainOps == {"add_block", "get_last_block", "list_blocks"}
PeerOps == {"add_peer", "list_peers"}

\* the peer strings a caller posts
PeerInputs == {"ws://localhost:5055", "localhost"}

\* the blocks a caller posts: successors of the tail it has read, with the
\* right or a wrong previous hash, stamped like the tail or later
ServerCandidates(bs) ==
    { b \in Candidates(bs) :
        /\ b.index = get_last_block(bs).index + 1
        /\ b.previous_hash \in {Block_hash(get_last_block(bs))} \cup BogusHashes
        /\ b.timestamp \in {get_last_block(bs).timestamp, MaxTime}
        /\ Len(b.data) = 1 }

Requests(bs) ==
    { [NoRequest EXCEPT !.op = "add_block", !.block = b] :
        b \in ServerCandidates(bs) }
    \cup { [NoRequest EXCEPT !.op = "list_blocks", !.from_index = n] :
             n \in {0, 1, MaxIndex + 2} }
    \cup { [NoRequest EXCEPT !.op = "get_last_block"] }
    \cup { [NoRequest EXCEPT !.op = "add_peer", !.entry = e] : e \in PeerInputs }
    \cup { [NoRequest EXCEPT !.op = "list_peers"] }

\* the mutex a request works under
lock_of(req) == IF req.op \in ChainOps THEN "chain" ELSE "peers"

InitServer ==
    /\ \E m \in Messages : blocks = Chain_new(m, 0)
    /\ before = blocks
    /\ candidate = NoCall
    /\ result = NoCall
    /\ wire = NoWire
    /\ decoded = NoCall
    /\ ServerIdle

\* a request out of reqs arrives and a handler task starts on it
ReceiveFrom(h, reqs) ==
    /\ handlers[h].pc = "idle"
    /\ \E req \in reqs :
           handlers' = [handlers EXCEPT ![h] =
               [IdleHandler EXCEPT !.pc = "lock", !.req = req,
                                   !.start_len = Len(blocks)]]
    /\ UNCHANGED <<blocks, cvars, locks, members>>

\* any request arrives
Receive(h) == ReceiveFrom(h, Requests(blocks))

\* a POST /blocks request arrives
ReceiveAddBlock(h) ==
    ReceiveFrom(h, {req \in Requests(blocks) : req.op = "add_block"})

\* lock().unwrap() on a mutex that is free and not poisoned
Acquire(h) ==
    LET l == lock_of(handlers[h].req) IN
    /\ handlers[h].pc = "lock"
    /\ lock_free(locks[l])
    /\ ~locks[l].poisoned
    /\ locks' = [locks EXCEPT ![l].holder = h]
    /\ handlers' = [handlers EXCEPT ![h].pc = "locked"]
    /\ UNCHANGED <<blocks, cvars, members>>

\* lock().unwrap() on a poisoned mutex: lock() returns Err and unwrap panics
AcquirePoisoned(h) ==
    LET l == lock_of(handlers[h].req) IN
    /\ handlers[h].pc = "lock"
    /\ lock_free(locks[l])
    /\ locks[l].poisoned
    /\ handlers' = [handlers EXCEPT ![h].pc = "idle", ![h].ret = Panic]
    /\ UNCHANGED <<blocks, cvars, locks, members>>

\* State::append_block, first half: Chain::append tests the block against
\* the tail
ValidateBlock(h) ==
    /\ handlers[h].pc = "locked"
    /\ handlers[h].req.op = "add_block"
    /\ handlers' = [handlers EXCEPT
           ![h].pc = "validated",
           ![h].ret = Chain_append(blocks, handlers[h].req.block).ret]
    /\ UNCHANGED <<blocks, cvars, locks, members>>

\* State::append_block, second half: the push when the tests passed, the
\* return and the drop of the guard
CommitBlock(h) ==
    /\ handlers[h].pc = "validated"
    /\ blocks' = IF handlers[h].ret.tag = "Ok"
                 THEN Append(blocks, Block_clone(handlers[h].ret.block))
                 ELSE blocks
    /\ locks' = [locks EXCEPT !.chain = unlocked(@)]
    /\ handlers' = [handlers EXCEPT ![h].pc = "idle"]
    /\ UNCHANGED <<cvars, members>>

\* get_last_block
GetLastBlock(h) ==
    /\ handlers[h].pc = "locked"
    /\ handlers[h].req.op = "get_last_block"
    /\ locks' = [locks EXCEPT !.chain = unlocked(@)]
    /\ handlers' = [handlers EXCEPT
           ![h].pc = "idle", ![h].ret = Ok(get_last_block(blocks))]
    /\ UNCHANGED <<blocks, cvars, members>>

\* list_blocks with from_index within the chain: the blocks from that
\* position on
ListBlocks(h) ==
    /\ handlers[h].pc = "locked"
    /\ handlers[h].req.op = "list_blocks"
    /\ handlers[h].req.from_index <= Len(blocks)
    /\ locks' = [locks EXCEPT !.chain = unlocked(@)]
    /\ handlers' = [handlers EXCEPT
           ![h].pc = "idle",
           ![h].ret = [tag |-> "List",
                       items |-> SubSeq(blocks, handlers[h].req.from_index + 1,
                                        Len(blocks))]]
    /\ UNCHANGED <<blocks, cvars, members>>

\* list_blocks with from_index beyond the chain: the slice panics while the
\* guard is alive
ListBlocksOutOfRange(h) ==
    /\ handlers[h].pc = "locked"
    /\ handlers[h].req.op = "list_blocks"
    /\ handlers[h].req.from_index > Len(blocks)
    /\ locks' = [locks EXCEPT !.chain = unlocked_by_panic(@)]
    /\ handlers' = [handlers EXCEPT ![h].pc = "idle", ![h].ret = Panic]
    /\ UNCHANGED <<blocks, cvars, members>>

\* add_peer: State::add_peer under the guard, the response, and what the
\* client that posted the entry makes of the response
AddPeer(h) ==
    LET r == Peers_append(members, MemberEntry(handlers[h].req.entry))
        response == add_peer_response(r.ret)
    IN
    /\ handlers[h].pc = "locked"
    /\ handlers[h].req.op = "add_peer"
    /\ members' = r.members
    /\ locks' = [locks EXCEPT !.peers = unlocked(@)]
    /\ handlers' = [handlers EXCEPT
           ![h].pc = "idle", ![h].ret = r.ret,
           ![h].seen = members, ![h].left = r.members,
           ![h].res = response, ![h].got = send_peer_result(response)]
    /\ UNCHANGED <<blocks, cvars>>

\* list_peers
ListPeers(h) ==
    /\ handlers[h].pc = "locked"
    /\ handlers[h].req.op = "list_peers"
    /\ locks' = [locks EXCEPT !.peers = unlocked(@)]
    /\ handlers' = [handlers EXCEPT
           ![h].pc = "idle", ![h].ret = [tag |-> "List", items |-> members]]
    /\ UNCHANGED <<blocks, cvars, members>>

NextServer ==
    \E h \in Handlers :
        \/ Receive(h)
        \/ Acquire(h)
        \/ AcquirePoisoned(h)
        \/ ValidateBlock(h)
        \/ CommitBlock(h)
        \/ GetLastBlock(h)
        \/ ListBlocks(h)
        \/ ListBlocksOutOfRange(h)
        \/ AddPeer(h)
        \/ ListPeers(h)

SpecServer == InitServer /\ [][NextServer]_vars

\* requests for both resources: appends stamped like the tail, listings of
\* the whole chain and from beyond it, the tail read and the peer routes
MixedRequests(bs) ==
    { req \in Requests(bs) :
        /\ req.op = "add_block" =>
               req.block.timestamp = get_last_block(bs).timestamp
        /\ req.op = "list_blocks" => req.from_index # 1 }

ReceiveMixed(h) == ReceiveFrom(h, MixedRequests(blocks))

\* what a handler does once lock() has returned: synchronous work without
\* any wait, so a task that can take the step takes it
Work(h) ==
    \/ AcquirePoisoned(h)
    \/ ValidateBlock(h)
    \/ CommitBlock(h)
    \/ GetLastBlock(h)
    \/ ListBlocks(h)
    \/ ListBlocksOutOfRange(h)
    \/ AddPeer(h)
    \/ ListPeers(h)

NextMixed ==
    \E h \in Handlers :
        \/ ReceiveMixed(h)
        \/ Acquire(h)
        \/ Work(h)

\* the server under fair scheduling: a running task goes on, and a task
\* that waits for a mutex that is free again and again gets it
SpecServerFair ==
    /\ InitServer /\ [][NextMixed]_vars
    /\ \A h \in Handlers : WF_vars(Work(h)) /\ SF_vars(Acquire(h))

\* the server when every request is an append
NextAppends ==
    \E h \in Handlers :
        \/ ReceiveAddBlock(h)
        \/ Acquire(h)
        \/ ValidateBlock(h)
        \/ CommitBlock(h)

SpecAppends == InitServer /\ [][NextAppends]_vars

\* the peer strings posted to the registry alone: two URLs, a second
\* spelling of the first, and three strings that are no URL (no scheme, a
\* special scheme without host, and a text of two lines)
PeerStrings ==
    { "ws://localhost:5055", "ws://localhost:5055/", "http://a",
      "localhost", "ws://", "local\nhost" }

PeerRequests ==
    { [NoRequest EXCEPT !.op = "add_peer", !.entry = e] : e \in PeerStrings }
    \cup { [NoRequest EXCEPT !.op = "list_peers"] }

\* a POST /peers or GET /peers request arrives
ReceivePeer(h) == ReceiveFrom(h, PeerRequests)

\* the server when every request is for the registry
NextPeers ==
    \E h \in Handlers :
        \/ ReceivePeer(h)
        \/ Acquire(h)
        \/ AddPeer(h)
        \/ ListPeers(h)

SpecPeers == InitServer /\ [][NextPeers]_vars

\* ---------------------------------------- the registry rejection codec alone
\* the EntryRejectedErr values handed to the encoder
EntryErrors ==
    {Err("InvalidURL", << s >>) : s \in PeerStrings}
    \cup {Err("AlreadyPresent", << MemberEntry(s) >>) : s \in PeerStrings}
    \cup {Unknown}

\* labels and reasons a server may put on the wire for a rejected entry
EntryWireLabels ==
    { ENTRY_URL_INVALID_LABEL, ENTRY_ALREADY_PRESENT_LABEL,
      UNKNOWN_ERROR_LABEL, "Peer rejected" }

EntryWireReasons ==
    { << "reason" >>,
      << "" >>,
      << "localhost" >>,
      << "ws://" >>,
      << "Entry URL is invalid: ", "" >>,
      << "Entry URL is invalid: ", "localhost" >>,
      << "Entry URL is invalid: ", "local\nhost" >>,
      << "Entry is already a member: ", "ws://localhost:5055" >>,
      << "Entry is already a member: ", "Entry URL is invalid: x" >>,
      << "rejected. ", "Entry URL is invalid: ", "ws://" >> }

InitEntryCodec ==
    /\ blocks = <<>>
    /\ before = <<>>
    /\ candidate = NoCall
    /\ result \in EntryErrors \cup {NoCall}
    /\ wire = NoWire
    /\ decoded = NoCall
    /\ ServerIdle

\* a server answers a rejected entry with the encoded error
\* (tests::test_sent_peer_rejected_malformed)
EncodeEntryError ==
    /\ result.tag # "None"
    /\ wire.status = 0
    /\ wire' = [status |-> 400, body |-> ErrorBody(encode_entry(result))]
    /\ UNCHANGED <<blocks, before, candidate, result, decoded, svars>>

\* a server answers 400 with any label and reason
MockEntryReply ==
    /\ result.tag = "None"
    /\ wire.status = 0
    /\ \E label \in EntryWireLabels, reason \in EntryWireReasons :
           wire' = [status |-> 400,
                    body |-> ErrorBody(APIErrorAndReason(label, reason))]
    /\ UNCHANGED <<blocks, before, candidate, result, decoded, svars>>

\* the client turns the body into an EntryRejectedErr
DecodeEntryError ==
    /\ wire.status # 0
    /\ decoded.tag = "None"
    /\ decoded' = decode_entry(wire.body.value)
    /\ UNCHANGED <<blocks, before, candidate, result, wire, svars>>

NextEntryCodec == EncodeEntryError \/ MockEntryReply \/ DecodeEntryError

SpecEntryCodec == InitEntryCodec /\ [][NextEntryCodec]_vars

\* ------------------------------- block.rs: generate_next; the tail read
\* the messages handed to generate_next
NextMessages == {"New data"}

\* variant of generate_next that copies the previous_hash of the block
generate_next_copied_hash(b, message, now) ==
    [index |-> (b.index + 1) % (U64_MAX + 1),
     previous_hash |-> b.previous_hash,
     timestamp |-> now,
     data |-> message_as_json(message)]

\* Block::generate_next, with get_epoch_ms() = now; the index is a u64
generate_next(b, message, now) ==
    [index |-> (b.index + 1) % (U64_MAX + 1),
     previous_hash |-> Block_hash(b),
     timestamp |-> now,
     data |-> message_as_json(message)]

\* chain.append(tail.generate_next(message)): the clock is read when the
\* block is built and may stand before the tail's timestamp
GenerateNext ==
    /\ get_last_block(blocks).index < MaxIndex
    /\ \E m \in NextMessages, now \in 0..MaxTime :
           LET block == generate_next(get_last_block(blocks), m, now)
               r == Chain_append(blocks, block)
           IN /\ blocks' = r.blocks
              /\ before' = blocks
              /\ candidate' = block
              /\ result' = r.ret
              /\ UNCHANGED <<wire, decoded>>
              /\ UNCHANGED svars

\* GET /blocks/last: the response carries chain.get_last_block()
ReadLast ==
    /\ wire' = [status |-> 200, body |-> get_last_block(blocks)]
    /\ UNCHANGED <<blocks, before, candidate, result, decoded, svars>>

\* chain.append(block) for a block a caller built as successor of the tail
AppendSuccessor ==
    \E block \in ServerCandidates(blocks) :
        LET r == Chain_append(blocks, block) IN
        /\ blocks' = r.blocks
        /\ before' = blocks
        /\ candidate' = block
        /\ result' = r.ret
        /\ UNCHANGED <<wire, decoded>>
        /\ UNCHANGED svars

\* chain.append(block) for a block equal to one appended earlier, kept by
\* the caller in a map of its own
Resubmit ==
    \E i \in 2..Len(blocks) :
        \E o \in Orders(blocks[i].data) :
            LET block == [blocks[i] EXCEPT !.data = o]
                r == Chain_append(blocks, block)
            IN /\ blocks' = r.blocks
               /\ before' = blocks
               /\ candidate' = block
               /\ result' = r.ret
               /\ UNCHANGED <<wire, decoded>>
               /\ UNCHANGED svars

NextChain == AppendSuccessor \/ GenerateNext \/ ReadLast \/ Resubmit

SpecChain == Init /\ [][NextChain]_vars

\* ================================================================= claims
\* the latest append call was made on a chain that had a tail
CalledOnTail == result.tag # "None" /\ Len(before) > 0

\* the tail the latest append call validated its candidate against
tail == get_last_block(before)

ErrorTags ==
    {"NotCorrelated", "NotPosterior", "HashNotMatching", "GenesisBlockNotFound"}

\* C1: every adjacent pair (prev, next) of the chain satisfies
\* next.previous_hash = hash(prev), after accepted and rejected appends alike.
C1_HashLink ==
    \A i \in 1..(Len(blocks) - 1) :
        blocks[i + 1].previous_hash = Block_hash(blocks[i])

\* two accepted appends, then a rejected one that submits a stale hash
C1_Witness ==
    /\ Len(blocks) >= 3
    /\ result.tag = "NotCorrelated"
    /\ candidate.previous_hash = get_last_block(blocks).previous_hash

\* C2: every adjacent pair satisfies next.index = prev.index + 1, and the
\* block at position i (counted from 0) has index i.
C2_IndexLink ==
    /\ \A i \in 1..(Len(blocks) - 1) :
           blocks[i + 1].index = blocks[i].index + 1
    /\ \A i \in DOMAIN blocks : blocks[i].index = i - 1

\* the second accepted append, which stores the block of index 2
C2_Witness ==
    /\ Len(blocks) >= 3
    /\ result.tag = "Ok"
    /\ candidate.index = 2
    /\ blocks[3] = candidate

\* C3 (as claimed): every adjacent pair satisfies
\* next.timestamp > prev.timestamp, strictly.
C3_TimestampStrict ==
    \A i \in 1..(Len(blocks) - 1) :
        blocks[i + 1].timestamp > blocks[i].timestamp

\* C4: a candidate with index = tail.index + 1, timestamp > tail.timestamp
\* and previous_hash = hash(tail) is accepted: append returns the candidate
\* unchanged, the chain is one block longer, its earlier blocks are as
\* before and the candidate is the new tail.
C4_AppendAcceptance ==
    ( /\ CalledOnTail
      /\ candidate.index = tail.index + 1
      /\ candidate.timestamp > tail.timestamp
      /\ candidate.previous_hash = Block_hash(tail) )
    => /\ result.tag = "Ok"
       /\ result.block = candidate
       /\ Block_eq(result.block, candidate)
       /\ Len(blocks) = Len(before) + 1
       /\ SubSeq(blocks, 1, Len(before)) = before
       /\ get_last_block(blocks) = candidate

C4_Witness ==
    /\ CalledOnTail
    /\ result.tag = "Ok"
    /\ candidate.timestamp > tail.timestamp
    /\ Len(before) >= 2

\* C5: whenever append returns an error the block sequence is the one the
\* call started with; the sequence differs only after a successful append.
C5_NoPartialAppend ==
    /\ result.tag \in ErrorTags => blocks = before
    /\ blocks # before => result.tag = "Ok"

C5_Witness ==
    /\ CalledOnTail
    /\ result.tag = "HashNotMatching"
    /\ candidate.index = tail.index + 1
    /\ blocks = before

C8_EqualTimestampAccepted ==
    ( /\ CalledOnTail
      /\ candidate.index = tail.index + 1
      /\ candidate.previous_hash = Block_hash(tail)
      /\ candidate.timestamp = tail.timestamp )
    => /\ result.tag = "Ok"
       /\ blocks = Append(before, candidate)

C8_Witness ==
    /\ CalledOnTail
    /\ result.tag = "Ok"
    /\ candidate.timestamp = tail.timestamp
    /\ get_last_block(blocks).timestamp = tail.timestamp

C10_CheckOrder ==
    result.tag # "None" =>
        IF Len(before) = 0 THEN result.tag = "GenesisBlockNotFound"
        ELSE IF candidate.index # tail.index + 1
        THEN result.tag = "NotCorrelated"
        ELSE IF candidate.timestamp < tail.timestamp
        THEN result.tag = "NotPosterior"
        ELSE IF candidate.previous_hash # Block_hash(tail)
        THEN result.tag = "HashNotMatching"
        ELSE result.tag = "Ok"

C10_Witness ==
    /\ CalledOnTail
    /\ result.tag = "NotCorrelated"
    /\ candidate.timestamp < tail.timestamp
    /\ candidate.previous_hash # Block_hash(tail)

\* C11: the chain never shrinks and no stored block is modified or removed:
\* every step leaves the earlier sequence as a prefix of the later one and
\* lengthens it by at most one block.
C11_AppendOnly ==
    [][ /\ Len(blocks') >= Len(blocks)
        /\ Len(blocks') <= Len(blocks) + 1
        /\ SubSeq(blocks', 1, Len(blocks)) = blocks ]_vars

C11_Witness ==
    /\ result.tag = "Ok"
    /\ Len(before) >= 2
    /\ Len(blocks) = Len(before) + 1
    /\ SubSeq(blocks, 1, Len(before)) = before

\* handler h has finished a POST /blocks request that it received when the
\* chain held k blocks, with a block valid against the tail of that moment
contender(h, k) ==
    /\ handlers[h].pc = "idle"
    /\ handlers[h].req.op = "add_block"
    /\ handlers[h].ret.tag # "None"
    /\ handlers[h].start_len = k
    /\ k <= Len(blocks)
    /\ handlers[h].req.block.index = blocks[k].index + 1
    /\ handlers[h].req.block.timestamp >= blocks[k].timestamp
    /\ handlers[h].req.block.previous_hash = Block_hash(blocks[k])

\* C12: concurrent appends act as if run one at a time: the chain keeps its
\* index and hash links, and of two handlers that submit at the same time
\* blocks valid against the same tail exactly one gets its block appended
\* and the other is rejected with NotCorrelated.
C12_AppendsSerialized ==
    /\ \A i \in DOMAIN blocks : blocks[i].index = i - 1
    /\ \A i \in 1..(Len(blocks) - 1) :
           blocks[i + 1].previous_hash = Block_hash(blocks[i])
    /\ \A h1, h2 \in Handlers, k \in 1..(MaxIndex + 1) :
           (h1 # h2 /\ contender(h1, k) /\ contender(h2, k))
           => /\ Len(blocks) = k + 1
              /\ {handlers[h1].ret.tag, handlers[h2].ret.tag}
                    = {"Ok", "NotCorrelated"}
              /\ \E h \in {h1, h2} :
                    /\ handlers[h].ret.tag = "Ok"
                    /\ blocks[k + 1] = handlers[h].req.block

C12_Witness ==
    \E h1, h2 \in Handlers :
        /\ h1 # h2
        /\ contender(h1, 2) /\ contender(h2, 2)
        /\ handlers[h1].ret.tag = "Ok"
        /\ handlers[h2].ret.tag = "NotCorrelated"
        /\ handlers[h1].req.block # handlers[h2].req.block

\* C13 (as claimed): every chain or registry operation releases the lock of
\* its resource when it ends, completed or failed, and leaves the lock fit
\* for any later operation: no handler at rest holds a lock, no lock is
\* poisoned and no operation dies on acquiring one.
C13_LockReleased ==
    /\ \A l \in {"chain", "peers"} :
          /\ ~locks[l].poisoned
          /\ locks[l].holder # NoHolder =>
                handlers[locks[l].holder].pc \in {"locked", "validated"}
    /\ \A h \in Handlers :
          (handlers[h].pc = "idle" /\ handlers[h].req.op # "list_blocks")
          => handlers[h].ret.tag # "Panic"

\* C14 (as claimed): whenever Chain::append rejects a candidate with
\* NotCorrelated, NotPosterior or HashNotMatching, the remote caller decodes
\* the server's {error, reason} into the same variant with the same given and
\* expected values.
C14_LosslessReconstruction ==
    result.tag \in {"NotCorrelated", "NotPosterior", "HashNotMatching"}
    => /\ decoded.tag = result.tag
       /\ decoded.args = result.args

\* C15: decode(encode(NotCorrelated(given, expected))) is
\* NotCorrelated(given, expected) for every pair of index values, given and
\* expected in their places.
C15_RoundTripNotCorrelated ==
    (result.tag = "NotCorrelated" /\ decoded.tag # "None")
    => /\ decoded.tag = "NotCorrelated"
       /\ Given(decoded) = Given(result)
       /\ Expected(decoded) = Expected(result)

C15_Witness ==
    /\ result.tag = "NotCorrelated"
    /\ decoded.tag = "NotCorrelated"
    /\ Given(result) = U64_MAX
    /\ Expected(result) = 2
    /\ flat(wire.body.reason) =
         "expected index 2 but received " \o to_decimal(U64_MAX)
         \o " which is not inmediate next"

\* C16: decode(encode(NotPosterior(given, expected))) is
\* NotPosterior(given, expected) for every pair of timestamp values, given
\* and expected in their places.
C16_RoundTripNotPosterior ==
    (result.tag = "NotPosterior" /\ decoded.tag # "None")
    => /\ decoded.tag = "NotPosterior"
       /\ Given(decoded) = Given(result)
       /\ Expected(decoded) = Expected(result)

C16_Witness ==
    /\ result.tag = "NotPosterior"
    /\ decoded.tag = "NotPosterior"
    /\ Given(result) = 3
    /\ Expected(result) = U128_MAX
    /\ flat(wire.body.reason) =
         "Given timestamp 3 is not later to " \o to_decimal(U128_MAX)

\* C17 (as claimed): decode(encode(HashNotMatching(given, expected))) is
\* HashNotMatching(given, expected) for every pair of strings.
C17_RoundTripHashNotMatching ==
    (result.tag = "HashNotMatching" /\ decoded.tag # "None")
    => /\ decoded.tag = "HashNotMatching"
       /\ Given(decoded) = Given(result)
       /\ Expected(decoded) = Expected(result)

\* the label is one of the three the decoder recognises
recognised_label(label) ==
    label \in { HASH_NOT_MATCHING_LABEL, INDEX_NOT_CORRELATIVE_LABEL,
                TIMESTAMP_NOT_LATER_LABEL }

\* the regular expression the decoder applies for a recognised label
regex_of(label) ==
    IF label = HASH_NOT_MATCHING_LABEL THEN HASH_NOT_MATCHING_DESC_REGEX
    ELSE IF label = INDEX_NOT_CORRELATIVE_LABEL THEN NOT_CORRELATIVE_DESC_REGEX
    ELSE NOT_POSTERIOR_DESC_REGEX

\* C18 (as claimed): decoding any {label, reason} returns a typed error and
\* never raises; an unrecognised label gives Unknown, and so does a
\* recognised label whose reason does not match the label's pattern.
C18_DecodeTotal ==
    (wire.status = 400 /\ decoded.tag # "None")
    => /\ decoded.tag # "Panic"
       /\ ~recognised_label(wire.body.error) => decoded.tag = "Unkown"
       /\ ( /\ recognised_label(wire.body.error)
            /\ ~captures(regex_of(wire.body.error), wire.body.reason).found )
          => decoded.tag = "Unkown"

\* a captured numeral of the reason does not fit the width of its field
numeral_too_wide(label, reason) ==
    LET caps == captures(regex_of(label), reason)
        max == IF label = INDEX_NOT_CORRELATIVE_LABEL THEN U64_MAX
               ELSE U128_MAX
    IN /\ label \in {INDEX_NOT_CORRELATIVE_LABEL, TIMESTAMP_NOT_LATER_LABEL}
       /\ caps.found
       /\ \E k \in 1..2 : parse_unsigned(caps.groups[k], max) > max

\* C19 (as claimed): with the index or the timestamp label and a reason that
\* matches the pattern but holds a numeral too wide for the field, decode
\* returns Unknown.
C19_WideNumeralUnknown ==
    ( /\ wire.status = 400
      /\ decoded.tag # "None"
      /\ numeral_too_wide(wire.body.error, wire.body.reason) )
    => decoded.tag = "Unkown"

\* C20: the server answers 200 with the stored block exactly when
\* Chain::append succeeds, and otherwise 400 with {error, reason}:
\* HashNotMatching as "Previous hash not matching" / "previous hash is
\* {expected} but {given} was provided", NotCorrelated as "New block index is
\* not correlative" / "expected index {expected} but received {given} which
\* is not inmediate next", NotPosterior as "New block timestamp must be later
\* to previous" / "Given timestamp {given} is not later to {expected}"; the
\* three labels are distinct.
C20_WireShape ==
    result.tag # "None" =>
    /\ (wire.status = 200) <=> (result.tag = "Ok")
    /\ result.tag = "Ok" =>
          wire.body = get_last_block(blocks) /\ wire.body = candidate
    /\ result.tag # "Ok" => wire.status = 400
    /\ result.tag = "HashNotMatching" =>
          /\ wire.body.error = "Previous hash not matching"
          /\ flat(wire.body.reason) =
               "previous hash is " \o Block_hash(tail) \o " but "
               \o candidate.previous_hash \o " was provided"
    /\ result.tag = "NotCorrelated" =>
          /\ wire.body.error = "New block index is not correlative"
          /\ flat(wire.body.reason) =
               "expected index " \o ToString(tail.index) \o " but received "
               \o ToString(candidate.index) \o " which is not inmediate next"
    /\ result.tag = "NotPosterior" =>
          /\ wire.body.error = "New block timestamp must be later to previous"
          /\ flat(wire.body.reason) =
               "Given timestamp " \o ToString(candidate.timestamp)
               \o " is not later to " \o ToString(tail.timestamp)
    /\ Cardinality({ HASH_NOT_MATCHING_LABEL, INDEX_NOT_CORRELATIVE_LABEL,
                     TIMESTAMP_NOT_LATER_LABEL }) = 3

C20_Witness ==
    /\ CalledOnTail
    /\ result.tag = "NotPosterior"
    /\ wire.status = 400
    /\ wire.body.error = TIMESTAMP_NOT_LATER_LABEL
    /\ Len(before) >= 2

\* C21: every completed listing request returned a list, never an error: the
\* blocks from the offset to the end in chain order, and the empty list when
\* the offset is the chain length or greater.
C21_ListingTotal ==
    \A h \in Handlers :
        (handlers[h].pc = "idle" /\ handlers[h].req.op = "list_blocks") =>
            /\ handlers[h].ret.tag = "List"
            /\ handlers[h].ret.items =
                   SubSeq(blocks, handlers[h].req.from_index + 1,
                          handlers[h].req.from_index + Len(handlers[h].ret.items))
            /\ (handlers[h].req.from_index >= Len(blocks) =>
                    handlers[h].ret.items = <<>>)

\* a handler that has completed a POST /peers request
added_peer(h) ==
    handlers[h].pc = "idle" /\ handlers[h].req.op = "add_peer"

\* C22: every member stored is a valid URL, and a peer addition whose string
\* is no valid URL failed with InvalidURL carrying that string and left the
\* member list as it was.
C22_InvalidURLRejected ==
    /\ \A i \in DOMAIN members : url_parse_ok(members[i].peer)
    /\ \A h \in Handlers :
           (added_peer(h) /\ ~url_parse_ok(handlers[h].req.entry)) =>
               /\ handlers[h].ret.tag = "InvalidURL"
               /\ handlers[h].ret.args = << handlers[h].req.entry >>
               /\ handlers[h].left = handlers[h].seen

\* an invalid string was posted to a registry that holds a member
C22_Witness ==
    \E h \in Handlers :
        /\ added_peer(h)
        /\ handlers[h].ret.tag = "InvalidURL"
        /\ handlers[h].req.entry = "ws://"
        /\ Len(handlers[h].seen) >= 1
        /\ members = handlers[h].seen

\* C23: no two members have the same peer string, whatever the interleaving
\* of the additions; adding a valid URL that is a member failed with
\* AlreadyPresent and left the list as it was; adding a valid URL that is no
\* member put the entry at the end, returned it and kept the earlier members
\* in their order, also under the additions made since.
C23_DeduplicatingOrderedSet ==
    /\ \A i, j \in DOMAIN members :
           i # j => members[i].peer # members[j].peer
    /\ \A h \in Handlers :
           (added_peer(h) /\ url_parse_ok(handlers[h].req.entry)) =>
               LET entry == MemberEntry(handlers[h].req.entry) IN
               /\ IF members_contains(handlers[h].seen, entry)
                  THEN /\ handlers[h].ret.tag = "AlreadyPresent"
                       /\ handlers[h].ret.args = << entry >>
                       /\ handlers[h].left = handlers[h].seen
                  ELSE /\ handlers[h].ret.tag = "Ok"
                       /\ handlers[h].ret.block = entry
                       /\ handlers[h].left = Append(handlers[h].seen, entry)
               /\ Len(handlers[h].left) <= Len(members)
               /\ SubSeq(members, 1, Len(handlers[h].left)) = handlers[h].left

\* two handlers posted the same URL to a registry that held another member:
\* one addition was stored after that member, the other found it present
C23_Witness ==
    \E h, k \in Handlers :
        /\ added_peer(h) /\ added_peer(k)
        /\ handlers[h].req.entry = handlers[k].req.entry
        /\ handlers[h].ret.tag = "Ok"
        /\ Len(handlers[h].seen) = 1
        /\ handlers[k].ret.tag = "AlreadyPresent"
        /\ Len(members) = 2

\* C24: decoding the encoding of InvalidURL or of AlreadyPresent gives the
\* error back with its peer string, and decoding never panics.
C24_RoundTripEntryErrors ==
    decoded.tag # "None" =>
        /\ decoded.tag # "Panic"
        /\ (result.tag \in {"InvalidURL", "AlreadyPresent"} =>
                decoded.tag = result.tag /\ decoded.args = result.args)

\* C25: a failed peer addition is answered with a body {error, reason}
\* whose label is one of the three of the registry codec and whose reason is
\* the codec's templated string, and the client that posted a string that is
\* no valid URL gets InvalidURL with that string.
C25_PeerFailureWireShape ==
    \A h \in Handlers :
        (added_peer(h) /\ ~is_success(handlers[h].res.status)) =>
            /\ handlers[h].res.body.kind = "APIErrorAndReason"
            /\ handlers[h].res.body.value.error \in
                   { ENTRY_URL_INVALID_LABEL, ENTRY_ALREADY_PRESENT_LABEL,
                     UNKNOWN_ERROR_LABEL }
            /\ handlers[h].res.body.value = encode_entry(handlers[h].ret)
            /\ (handlers[h].ret.tag = "InvalidURL" =>
                    /\ handlers[h].got.tag = "InvalidURL"
                    /\ handlers[h].got.args = << handlers[h].req.entry >>)

\* C26: a record equal to a stored block under Block's PartialEq, built with
\* its payload map in any iteration order, has the hash of the stored block.
C26_HashOfEqualRecords ==
    \A i \in DOMAIN blocks :
        \A o \in Orders(blocks[i].data) :
            LET copy == [blocks[i] EXCEPT !.data = o] IN
            Block_eq(copy, blocks[i]) => Block_hash(copy) = Block_hash(blocks[i])

\* C27: the chain made by Chain::new starts with one genesis block (index 0,
\* empty previous_hash, payload {message: seed}) and stays non-empty under
\* append, so that append never returns GenesisBlockNotFound and the
\* last-block read finds a block.
C27_NeverEmpty ==
    /\ Len(blocks) >= 1
    /\ Len(before) >= 1
    /\ blocks[1] = before[1]
    /\ blocks[1].index = 0
    /\ blocks[1].previous_hash = ""
    /\ \E m \in Messages : blocks[1].data = message_as_json(m)
    /\ result.tag # "GenesisBlockNotFound"
    /\ get_last_block(blocks) \in {blocks[i] : i \in DOMAIN blocks}

\* a block was appended after the genesis block and a later one rejected
C27_Witness ==
    /\ Len(blocks) = 2
    /\ blocks = before
    /\ result.tag \in ErrorTags
    /\ blocks[1].index = 0
    /\ blocks[2].index = 1

\* C28: every addition of a valid peer URL is answered with a success
\* status, the client that posted it gets Ok with the entry, and the
\* registry holds that peer once.
C28_PeerAdditionIdempotent ==
    \A h \in Handlers :
        (added_peer(h) /\ url_parse_ok(handlers[h].req.entry)) =>
            /\ is_success(handlers[h].res.status)
            /\ handlers[h].got.tag = "Ok"
            /\ handlers[h].got.block = MemberEntry(handlers[h].req.entry)
            /\ Cardinality({i \in DOMAIN members :
                              members[i].peer = handlers[h].req.entry}) = 1

\* C29: GenesisBlockNotFound and Unkown are encoded as "Unknown error" with
\* reason "reason" and decoded as Unkown, and encoding and decoding what was
\* decoded gives Unkown again.
C29_PayloadlessToUnknown ==
    result.tag \in {"GenesisBlockNotFound", "Unkown"} =>
        /\ wire.status # 0 =>
               /\ wire.body.error = UNKNOWN_ERROR_LABEL
               /\ flat(wire.body.reason) = "reason"
        /\ decoded.tag # "None" =>
               /\ decoded.tag = "Unkown"
               /\ decode(encode(decoded)).tag = "Unkown"

\* GenesisBlockNotFound went over the wire and came back as Unkown
C29_Witness ==
    /\ result.tag = "GenesisBlockNotFound"
    /\ wire.status = 400
    /\ decoded.tag = "Unkown"

\* C30: append on a chain without blocks returns GenesisBlockNotFound for
\* every candidate and leaves the chain without blocks.
C30_AppendOnEmpty ==
    (result.tag # "None" /\ Len(before) = 0) =>
        /\ result.tag = "GenesisBlockNotFound"
        /\ blocks = <<>>

\* a candidate that looks like a genesis block was handed to the empty chain
C30_Witness ==
    /\ Len(before) = 0
    /\ result.tag = "GenesisBlockNotFound"
    /\ candidate.index = 0
    /\ candidate.timestamp = 0
    /\ blocks = <<>>

\* C31: the error append returns carries the tail's value first and the
\* candidate's value second: NotCorrelated(tail index, candidate index),
\* NotPosterior(tail timestamp, candidate timestamp),
\* HashNotMatching(hash of tail, candidate previous_hash).
C31_TailValueFirst ==
    CalledOnTail =>
        /\ result.tag = "NotCorrelated" =>
               result.args = << tail.index, candidate.index >>
        /\ result.tag = "NotPosterior" =>
               result.args = << tail.timestamp, candidate.timestamp >>
        /\ result.tag = "HashNotMatching" =>
               result.args = << Block_hash(tail), candidate.previous_hash >>

\* C32: the block generate_next builds from the tail has the tail's index
\* plus one and the tail's hash as previous_hash, and appending it succeeds
\* when its timestamp is not earlier than the tail's.
C32_GenerateNextValid ==
    (CalledOnTail /\ \E m \in NextMessages, now \in 0..MaxTime :
                         candidate = generate_next(tail, m, now)) =>
        /\ candidate.index = tail.index + 1
        /\ candidate.previous_hash = Block_hash(tail)
        /\ candidate.timestamp >= tail.timestamp =>
               /\ result.tag = "Ok"
               /\ blocks = Append(before, candidate)

\* a generated block stamped like its tail was appended after another one
C32_Witness ==
    /\ CalledOnTail
    /\ Len(before) = 2
    /\ candidate = generate_next(tail, "New data", tail.timestamp)
    /\ result.tag = "Ok"
    /\ Len(blocks) = 3

\* C33: the last-block read returns the block of the latest successful
\* append, the genesis block when there was none, and the tail as it was
\* before when the latest append was rejected.
C33_LastBlockIsTail ==
    [][ (UNCHANGED <<blocks, before, candidate, result>>
         /\ wire'.status = 200) =>
            wire'.body = IF result.tag = "Ok" THEN candidate
                         ELSE before[Len(before)] ]_vars

\* the tail was read after an append and a rejected append that followed
C33_Witness ==
    /\ wire.status = 200
    /\ Len(blocks) = 2
    /\ blocks = before
    /\ result.tag \in ErrorTags
    /\ wire.body = blocks[2]

\* C34: a read works on its resource while no other request is at work on
\* it, so that it sees the state left by complete operations; the blocks a
\* listing or a last-block read returned are linked by index and hash and
\* stay in the chain at the place they were read from, and the members a
\* peer listing returned stay the first members of the registry.
reading(h) ==
    /\ handlers[h].pc = "locked"
    /\ handlers[h].req.op \in {"list_blocks", "get_last_block", "list_peers"}

at_work_on(k, l) ==
    /\ handlers[k].pc \in {"locked", "validated"}
    /\ lock_of(handlers[k].req) = l

C34_ConsistentReads ==
    \A h \in Handlers :
        /\ reading(h) =>
               \A k \in Handlers \ {h} :
                   ~at_work_on(k, lock_of(handlers[h].req))
        /\ (handlers[h].pc = "idle" /\ handlers[h].ret.tag = "List"
            /\ handlers[h].req.op = "list_blocks") =>
               LET items == handlers[h].ret.items
                   from == handlers[h].req.from_index
               IN /\ items = SubSeq(blocks, from + 1, from + Len(items))
                  /\ \A i \in 1..(Len(items) - 1) :
                         /\ items[i + 1].index = items[i].index + 1
                         /\ items[i + 1].previous_hash = Block_hash(items[i])
        /\ (handlers[h].pc = "idle" /\ handlers[h].ret.tag = "Ok"
            /\ handlers[h].req.op = "get_last_block") =>
               \E i \in DOMAIN blocks :
                   /\ i >= handlers[h].start_len
                   /\ handlers[h].ret.block = blocks[i]
        /\ (handlers[h].pc = "idle" /\ handlers[h].ret.tag = "List"
            /\ handlers[h].req.op = "list_peers") =>
               handlers[h].ret.items =
                   SubSeq(members, 1, Len(handlers[h].ret.items))

\* a listing ran while the other handler waited with an append, and
\* returned the two blocks the chain held
C34_Witness ==
    \E h, k \in Handlers :
        /\ handlers[h].pc = "idle"
        /\ handlers[h].req.op = "list_blocks"
        /\ handlers[h].ret.tag = "List"
        /\ Len(handlers[h].ret.items) = 2
        /\ handlers[k].req.op = "add_block"
        /\ handlers[k].pc = "validated"
        /\ handlers[k].start_len = 2

\* C35: along the chain every block is stamped at or after the block
\* before it.
C35_TimestampsNeverDecrease ==
    \A i \in 1..(Len(blocks) - 1) :
        blocks[i + 1].timestamp >= blocks[i].timestamp

\* three blocks, the second stamped like the first and the third later
C35_Witness ==
    /\ Len(blocks) = 3
    /\ blocks[2].timestamp = blocks[1].timestamp
    /\ blocks[3].timestamp > blocks[2].timestamp

\* C36: a candidate equal to a block appended earlier is rejected with
\* NotCorrelated and leaves the chain as it was, and no two blocks of the
\* chain have the same index.
C36_ReplayRejected ==
    /\ \A i, j \in DOMAIN blocks : i # j => blocks[i].index # blocks[j].index
    /\ (CalledOnTail /\ \E i \in 2..Len(before) :
                            Block_eq(candidate, before[i])) =>
           /\ result.tag = "NotCorrelated"
           /\ blocks = before

\* the second block was submitted again after a third one was appended
C36_Witness ==
    /\ CalledOnTail
    /\ Len(before) = 3
    /\ Block_eq(candidate, before[2])
    /\ result.tag = "NotCorrelated"

\* C37: no handler holds the chain mutex and the registry mutex at the same
\* time, a handler that has finished holds none, and under fair scheduling
\* every request a handler has started comes to its end.
C37_NoDeadlock ==
    /\ [](\A h \in Handlers :
              /\ ~(locks.chain.holder = h /\ locks.peers.holder = h)
              /\ handlers[h].pc = "idle" =>
                     (locks.chain.holder # h /\ locks.peers.holder # h))
    /\ \A h \in Handlers :
           (handlers[h].pc # "idle") ~> (handlers[h].pc = "idle")

\* one handler works on the chain while the other works on the registry
C37_Witness ==
    \E h, k \in Handlers :
        /\ locks.chain.holder = h
        /\ handlers[h].pc = "validated"
        /\ locks.peers.holder = k
        /\ handlers[k].req.op = "add_peer"

====
